---- MODULE Spec2Model ----
(***************************************************************************)
(* SequenceTree of automerge-frontend/src/state_tree/sequence_tree.rs: a   *)
(* binary tree of (OpId, value) leaves addressed by position, with a       *)
(* cached subtree length in every internal node.                           *)
(* ScalarValue and ScalarValues of automerge-protocol/src/lib.rs: the      *)
(* coercion as_datatype and the one-kind vector filled by append.          *)
(***************************************************************************)
EXTENDS Integers, Sequences, FiniteSets, TLC

\* Bounds of the exploration.
MaxInserts == 3

\* Sample values of the element type T.  The k-th insert carries
\* OpId(k, actor) of a single actor, written k.
Elements == {"a", "b"}
\* The positions calls are made with.
Positions == 0..(MaxInserts + 1)

\* The width of i64 and u64, scaled down from 64.
Bits == 3
\* The longest ScalarValues filled.
MaxAppends == 3

VARIABLES root_node, panicked, prev, last, reference, nIns, nRem

\* value: the ScalarValue as_datatype is called on; result: the last call
\* of as_datatype; values: a ScalarValues; prevValues: values before the
\* last call of append; lastAppend: that call.
VARIABLES value, result, values, prevValues, lastAppend

treeVars == <<root_node, panicked, prev, last, reference, nIns, nRem>>
scalarVars == <<value, result, values, prevValues, lastAppend>>
vars == <<treeVars, scalarVars>>

----------------------------------------------------------------------------
\* Option<Box<SequenceTreeNode>>::None
None == [kind |-> "None"]

\* SequenceTreeInner::Leaf(OpId, T)
Leaf(opid, element) == [kind |-> "Leaf", opid |-> opid, elem |-> element]

\* SequenceTreeInner::Node { left, right, len }
Node(left, right, len) == [kind |-> "Node", left |-> left, right |-> right, len |-> len]

\* SequenceTree::new: an Internal root without children, len 0.
new == Node(None, None, 0)

\* SequenceTreeNode::len
NodeLen(n) == IF n.kind = "Leaf" THEN 1 ELSE n.len

\* left.as_ref().map_or(0, |l| l.len())
MapOrLen(child) == IF child.kind = "None" THEN 0 ELSE NodeLen(child)

\* SequenceTree::len
len == NodeLen(root_node)

\* `*len -= 1` on a usize.  With debug assertions a decrement of 0 panics
\* (handled by the caller); without them it wraps to usize::MAX, which is
\* written -1 here (the value congruent to usize::MAX modulo 2^64).
WrappingDec(n) == n - 1

\* Option<(OpId, &T)>
NoneResult == [some |-> FALSE]
Some(opid, element) == [some |-> TRUE, opid |-> opid, elem |-> element]

\* NodeInsert with a slip: the node that replaces a split Leaf caches len 1.
RECURSIVE NodeInsert_SplitLenOne(_, _, _, _)
NodeInsert_SplitLenOne(n, index, opid, element) ==
  IF n.kind = "Leaf"
  THEN Node(Leaf(n.opid, n.elem), Leaf(opid, element), 1)
  ELSE LET left_len == MapOrLen(n.left) IN
       IF index > left_len
       THEN IF n.right.kind # "None"
            THEN Node(n.left, NodeInsert_SplitLenOne(n.right, index - left_len, opid, element), n.len + 1)
            ELSE Node(n.left, Leaf(opid, element), n.len + 1)
       ELSE IF n.left.kind # "None"
            THEN Node(NodeInsert_SplitLenOne(n.left, index, opid, element), n.right, n.len + 1)
            ELSE Node(Leaf(opid, element), n.right, n.len + 1)

\* NodeInsert with a slip: an Internal node without children turns into the
\* Leaf itself instead of taking it as its left child.
RECURSIVE NodeInsert_EmptyBecomesLeaf(_, _, _, _)
NodeInsert_EmptyBecomesLeaf(n, index, opid, element) ==
  IF n.kind = "Leaf"
  THEN Node(Leaf(n.opid, n.elem), Leaf(opid, element), 2)
  ELSE IF n.left.kind = "None" /\ n.right.kind = "None"
  THEN Leaf(opid, element)
  ELSE LET left_len == MapOrLen(n.left) IN
       IF index > left_len
       THEN IF n.right.kind # "None"
            THEN Node(n.left, NodeInsert_EmptyBecomesLeaf(n.right, index - left_len, opid, element), n.len + 1)
            ELSE Node(n.left, Leaf(opid, element), n.len + 1)
       ELSE IF n.left.kind # "None"
            THEN Node(NodeInsert_EmptyBecomesLeaf(n.left, index, opid, element), n.right, n.len + 1)
            ELSE Node(Leaf(opid, element), n.right, n.len + 1)

\* NodeInsert with a slip: a split Leaf loses its old (OpId, value) pair, both
\* new leaves hold the incoming one.
RECURSIVE NodeInsert_SplitDropsOld(_, _, _, _)
NodeInsert_SplitDropsOld(n, index, opid, element) ==
  IF n.kind = "Leaf"
  THEN Node(Leaf(opid, element), Leaf(opid, element), 2)
  ELSE LET left_len == MapOrLen(n.left) IN
       IF index > left_len
       THEN IF n.right.kind # "None"
            THEN Node(n.left, NodeInsert_SplitDropsOld(n.right, index - left_len, opid, element), n.len + 1)
            ELSE Node(n.left, Leaf(opid, element), n.len + 1)
       ELSE IF n.left.kind # "None"
            THEN Node(NodeInsert_SplitDropsOld(n.left, index, opid, element), n.right, n.len + 1)
            ELSE Node(Leaf(opid, element), n.right, n.len + 1)

\* NodeInsert with a slip: the descent into an existing left child leaves
\* the cached len of the node as it was.
RECURSIVE NodeInsert_LeftKeepsLen(_, _, _, _)
NodeInsert_LeftKeepsLen(n, index, opid, element) ==
  IF n.kind = "Leaf"
  THEN Node(Leaf(n.opid, n.elem), Leaf(opid, element), 2)
  ELSE LET left_len == MapOrLen(n.left) IN
       IF index > left_len
       THEN IF n.right.kind # "None"
            THEN Node(n.left, NodeInsert_LeftKeepsLen(n.right, index - left_len, opid, element), n.len + 1)
            ELSE Node(n.left, Leaf(opid, element), n.len + 1)
       ELSE IF n.left.kind # "None"
            THEN Node(NodeInsert_LeftKeepsLen(n.left, index, opid, element), n.right, n.len)
            ELSE Node(Leaf(opid, element), n.right, n.len + 1)

\* SequenceTreeNode::insert
RECURSIVE NodeInsert(_, _, _, _)
NodeInsert(n, index, opid, element) ==
  IF n.kind = "Leaf"
  THEN Node(Leaf(n.opid, n.elem), Leaf(opid, element), 2)
  ELSE LET left_len == MapOrLen(n.left) IN
       IF index > left_len
       THEN IF n.right.kind # "None"
            THEN Node(n.left, NodeInsert(n.right, index - left_len, opid, element), n.len + 1)
            ELSE Node(n.left, Leaf(opid, element), n.len + 1)
       ELSE IF n.left.kind # "None"
            THEN Node(NodeInsert(n.left, index, opid, element), n.right, n.len + 1)
            ELSE Node(Leaf(opid, element), n.right, n.len + 1)

\* The outcome of a call that may panic: the node as the call leaves it, the
\* returned value when it returns, and whether it panicked.
Returned(n, ret) == [node |-> n, ret |-> ret, panic |-> FALSE]
Panic(n) == [node |-> n, ret |-> "", panic |-> TRUE]

\* NodeRemove with a slip: `*len -= 1` is missing.
RECURSIVE NodeRemove_NoDecrement(_, _, _)
NodeRemove_NoDecrement(n, index, dbg) ==
  IF n.kind = "Leaf"
  THEN Panic(n)
  ELSE LET left_len == MapOrLen(n.left)
           len1 == n.len
       IN
       IF index > left_len
       THEN IF n.right.kind # "None"
            THEN IF n.right.kind = "Leaf"
                 THEN Returned(Node(n.left, None, len1), n.right.elem)
                 ELSE LET r == NodeRemove_NoDecrement(n.right, index - left_len, dbg) IN
                      [node |-> Node(n.left, r.node, len1), ret |-> r.ret, panic |-> r.panic]
            ELSE Panic(Node(n.left, n.right, len1))
       ELSE IF n.left.kind # "None"
            THEN IF n.left.kind = "Leaf"
                 THEN Returned(Node(None, n.right, len1), n.left.elem)
                 ELSE LET r == NodeRemove_NoDecrement(n.left, index, dbg) IN
                      [node |-> Node(r.node, n.right, len1), ret |-> r.ret, panic |-> r.panic]
            ELSE Panic(Node(n.left, n.right, len1))

\* NodeRemove with a slip: an absent child ends the call with a default value
\* instead of `unreachable!`.
RECURSIVE NodeRemove_AbsentChildReturns(_, _, _)
NodeRemove_AbsentChildReturns(n, index, dbg) ==
  IF n.kind = "Leaf"
  THEN Panic(n)
  ELSE IF dbg /\ n.len = 0
  THEN Panic(n)
  ELSE LET left_len == MapOrLen(n.left)
           len1 == WrappingDec(n.len)
       IN
       IF index > left_len
       THEN IF n.right.kind # "None"
            THEN IF n.right.kind = "Leaf"
                 THEN Returned(Node(n.left, None, len1), n.right.elem)
                 ELSE LET r == NodeRemove_AbsentChildReturns(n.right, index - left_len, dbg) IN
                      [node |-> Node(n.left, r.node, len1), ret |-> r.ret, panic |-> r.panic]
            ELSE Returned(Node(n.left, n.right, len1), "")
       ELSE IF n.left.kind # "None"
            THEN IF n.left.kind = "Leaf"
                 THEN Returned(Node(None, n.right, len1), n.left.elem)
                 ELSE LET r == NodeRemove_AbsentChildReturns(n.left, index, dbg) IN
                      [node |-> Node(r.node, n.right, len1), ret |-> r.ret, panic |-> r.panic]
            ELSE Returned(Node(n.left, n.right, len1), "")

\* NodeRemove with a slip: an Internal child that the call leaves without
\* children is pruned from its parent.
RECURSIVE NodeRemove_PrunesEmptyChild(_, _, _)
NodeRemove_PrunesEmptyChild(n, index, dbg) ==
  IF n.kind = "Leaf"
  THEN Panic(n)
  ELSE IF dbg /\ n.len = 0
  THEN Panic(n)
  ELSE LET left_len == MapOrLen(n.left)
           len1 == WrappingDec(n.len)
           Pruned(r) == IF ~r.panic /\ r.node.left.kind = "None" /\ r.node.right.kind = "None"
                        THEN None ELSE r.node
       IN
       IF index > left_len
       THEN IF n.right.kind # "None"
            THEN IF n.right.kind = "Leaf"
                 THEN Returned(Node(n.left, None, len1), n.right.elem)
                 ELSE LET r == NodeRemove_PrunesEmptyChild(n.right, index - left_len, dbg) IN
                      [node |-> Node(n.left, Pruned(r), len1), ret |-> r.ret, panic |-> r.panic]
            ELSE Panic(Node(n.left, n.right, len1))
       ELSE IF n.left.kind # "None"
            THEN IF n.left.kind = "Leaf"
                 THEN Returned(Node(None, n.right, len1), n.left.elem)
                 ELSE LET r == NodeRemove_PrunesEmptyChild(n.left, index, dbg) IN
                      [node |-> Node(Pruned(r), n.right, len1), ret |-> r.ret, panic |-> r.panic]
            ELSE Panic(Node(n.left, n.right, len1))

\* SequenceTreeNode::remove
RECURSIVE NodeRemove(_, _, _)
NodeRemove(n, index, dbg) ==
  IF n.kind = "Leaf"
  THEN Panic(n)
  ELSE IF dbg /\ n.len = 0
  THEN Panic(n)
  ELSE LET left_len == MapOrLen(n.left)
           len1 == WrappingDec(n.len)
       IN
       IF index > left_len
       THEN IF n.right.kind # "None"
            THEN IF n.right.kind = "Leaf"
                 THEN Returned(Node(n.left, None, len1), n.right.elem)
                 ELSE LET r == NodeRemove(n.right, index - left_len, dbg) IN
                      [node |-> Node(n.left, r.node, len1), ret |-> r.ret, panic |-> r.panic]
            ELSE Panic(Node(n.left, n.right, len1))
       ELSE IF n.left.kind # "None"
            THEN IF n.left.kind = "Leaf"
                 THEN Returned(Node(None, n.right, len1), n.left.elem)
                 ELSE LET r == NodeRemove(n.left, index, dbg) IN
                      [node |-> Node(r.node, n.right, len1), ret |-> r.ret, panic |-> r.panic]
            ELSE Panic(Node(n.left, n.right, len1))

\* SequenceTreeNode::set
RECURSIVE NodeSet(_, _, _)
NodeSet(n, index, element) ==
  IF n.kind = "Leaf"
  THEN Returned(Leaf(n.opid, element), n.elem)
  ELSE LET left_len == MapOrLen(n.left) IN
       IF index > left_len
       THEN IF n.right.kind # "None"
            THEN LET r == NodeSet(n.right, index - left_len, element) IN
                 [node |-> Node(n.left, r.node, n.len), ret |-> r.ret, panic |-> r.panic]
            ELSE Panic(n)
       ELSE IF n.left.kind # "None"
            THEN LET r == NodeSet(n.left, index, element) IN
                 [node |-> Node(r.node, n.right, n.len), ret |-> r.ret, panic |-> r.panic]
            ELSE Panic(n)

\* SequenceTreeNode::get
RECURSIVE NodeGet(_, _)
NodeGet(n, index) ==
  IF n.kind = "Leaf"
  THEN Some(n.opid, n.elem)
  ELSE LET left_len == MapOrLen(n.left) IN
       IF index > left_len
       THEN IF n.right.kind # "None" THEN NodeGet(n.right, index - left_len) ELSE NoneResult
       ELSE IF n.left.kind # "None" THEN NodeGet(n.left, index) ELSE NoneResult

\* SequenceTreeNode::get_mut
RECURSIVE NodeGetMut(_, _)
NodeGetMut(n, index) ==
  IF n.kind = "Leaf"
  THEN Some(n.opid, n.elem)
  ELSE LET left_len == MapOrLen(n.left) IN
       IF index > left_len
       THEN IF n.right.kind # "None" THEN NodeGetMut(n.right, index - left_len) ELSE NoneResult
       ELSE IF n.left.kind # "None" THEN NodeGetMut(n.left, index) ELSE NoneResult

----------------------------------------------------------------------------
\* The leaves of a (sub)tree from left to right, as (opid, elem) records.
RECURSIVE InOrder(_)
InOrder(n) ==
  IF n.kind = "None" THEN <<>>
  ELSE IF n.kind = "Leaf" THEN <<[opid |-> n.opid, elem |-> n.elem]>>
  ELSE InOrder(n.left) \o InOrder(n.right)

\* The reference list operations of the stress test of spec section 8.
ListInsert(s, i, x) == SubSeq(s, 1, i) \o <<x>> \o SubSeq(s, i + 1, Len(s))
ListRemove(s, i) == SubSeq(s, 1, i) \o SubSeq(s, i + 2, Len(s))
ListSet(s, i, v) == [s EXCEPT ![i + 1].elem = v]

\* The record of the call made last.
Call(op, index, opid, element, ret, panic) ==
  [op |-> op, index |-> index, opid |-> opid, elem |-> element, ret |-> ret, panic |-> panic]

----------------------------------------------------------------------------
\* i64 and u64 at the scaled width.
I64Min == -(2^(Bits - 1))
I64Max == 2^(Bits - 1) - 1
U64Max == 2^Bits - 1

\* An f64: an integral number or NaN.  Its mantissa is narrower than an
\* i64 (53 bits against 63), here by the one bit that makes the largest
\* i64 values inexact.
Float(n) == [nan |-> FALSE, f |-> n]
NaN == [nan |-> TRUE, f |-> 0]
MantissaBits == Bits - 2

\* pub struct OpId(pub u64, pub ActorId)
OpId(counter, actor) == [counter |-> counter, actor |-> actor]

\* pub enum ScalarValue
Bytes(b) == [kind |-> "Bytes", bytes |-> b]
Str(s) == [kind |-> "Str", str |-> s]
Int64(i) == [kind |-> "Int", i |-> i]
Uint(u) == [kind |-> "Uint", u |-> u]
F64(x) == [kind |-> "F64", x |-> x]
Counter(i) == [kind |-> "Counter", i |-> i]
Timestamp(i) == [kind |-> "Timestamp", i |-> i]
Cursor(opid) == [kind |-> "Cursor", opid |-> opid]
Boolean(b) == [kind |-> "Boolean", b |-> b]
Null == [kind |-> "Null"]

\* The discriminants of ScalarValue (strum EnumDiscriminants).
ScalarValueKind ==
  {"Bytes", "Str", "Int", "Uint", "F64", "Counter", "Timestamp", "Cursor", "Boolean", "Null"}

\* ScalarValueKind::from(&v)
KindFrom(v) == v.kind

\* pub enum DataType
DataType == {"Counter", "Timestamp", "Bytes", "Cursor", "Uint", "Int", "F64", "Undefined"}

\* `*n as i64` of a u64: the value modulo 2^width read as two's complement.
U64AsI64(u) == IF u > I64Max THEN u - 2^Bits ELSE u

\* `*n as u64` of an i64: the value modulo 2^width.
I64AsU64(i) == i % 2^Bits

\* `*n as i64` of an f64 saturates, and NaN gives 0.
F64AsI64(x) ==
  IF x.nan THEN 0
  ELSE IF x.f < I64Min THEN I64Min
  ELSE IF x.f > I64Max THEN I64Max
  ELSE x.f

\* `*n as u64` of an f64 saturates, and NaN gives 0.
F64AsU64(x) ==
  IF x.nan THEN 0
  ELSE IF x.f < 0 THEN 0
  ELSE IF x.f > U64Max THEN U64Max
  ELSE x.f

\* The distance of neighbouring f64 values at the magnitude of m >= 0.
RECURSIVE Ulp(_)
Ulp(m) == IF m < 2^MantissaBits THEN 1 ELSE 2 * Ulp(m \div 2)

\* `*n as f64` of an integer rounds to the nearest f64, ties to even.
RoundNat(m) ==
  LET u == Ulp(m)
      q == m \div u
      r == m % u
  IN IF 2 * r < u THEN q * u
     ELSE IF 2 * r > u THEN (q + 1) * u
     ELSE IF q % 2 = 0 THEN q * u ELSE (q + 1) * u
IntAsF64(n) == Float(IF n < 0 THEN -RoundNat(-n) ELSE RoundNat(n))

\* i64::try_from(u64)
TryFromU64(u) == IF u <= I64Max THEN [ok |-> TRUE, i |-> u] ELSE [ok |-> FALSE]

\* Option<i64>, Option<u64>, Option<f64>
NoNumber == [some |-> FALSE]
SomeNumber(x) == [some |-> TRUE, number |-> x]

\* ScalarValue::to_i64
to_i64(v) ==
  IF v.kind = "Int" THEN SomeNumber(v.i)
  ELSE IF v.kind = "Uint" THEN SomeNumber(U64AsI64(v.u))
  ELSE IF v.kind = "F64" THEN SomeNumber(F64AsI64(v.x))
  ELSE IF v.kind = "Counter" THEN SomeNumber(v.i)
  ELSE IF v.kind = "Timestamp" THEN SomeNumber(v.i)
  ELSE NoNumber

\* ScalarValue::to_u64
to_u64(v) ==
  IF v.kind = "Int" THEN SomeNumber(I64AsU64(v.i))
  ELSE IF v.kind = "Uint" THEN SomeNumber(v.u)
  ELSE IF v.kind = "F64" THEN SomeNumber(F64AsU64(v.x))
  ELSE IF v.kind = "Counter" THEN SomeNumber(I64AsU64(v.i))
  ELSE IF v.kind = "Timestamp" THEN SomeNumber(I64AsU64(v.i))
  ELSE NoNumber

\* ScalarValue::to_f64
to_f64(v) ==
  IF v.kind = "Int" THEN SomeNumber(IntAsF64(v.i))
  ELSE IF v.kind = "Uint" THEN SomeNumber(IntAsF64(v.u))
  ELSE IF v.kind = "F64" THEN SomeNumber(v.x)
  ELSE IF v.kind = "Counter" THEN SomeNumber(IntAsF64(v.i))
  ELSE IF v.kind = "Timestamp" THEN SomeNumber(IntAsF64(v.i))
  ELSE NoNumber

\* Result<ScalarValue, error::InvalidScalarValue>.  `unexpected` is the
\* Display of the raw value in every arm but the two try_from arms.
Ok(v) == [ok |-> TRUE, value |-> v]
DisplayOfRawValue == "v.to_string()"
InvalidScalarValue(raw_value, expected, unexpected, datatype) ==
  [ok |-> FALSE, error |-> "InvalidScalarValue", raw_value |-> raw_value,
   expected |-> expected, unexpected |-> unexpected, datatype |-> datatype]

\* as_datatype with a slip: a Uint becomes a Counter or a Timestamp by
\* `as i64` where the code uses i64::try_from.
as_datatype_UintWraps(self, datatype) ==
  IF datatype = "Counter" /\ self.kind = "Int" THEN Ok(Counter(self.i))
  ELSE IF datatype = "Counter" /\ self.kind = "Uint" THEN Ok(Counter(U64AsI64(self.u)))
  ELSE IF datatype = "Bytes" /\ self.kind = "Bytes" THEN Ok(Bytes(self.bytes))
  ELSE IF datatype = "Bytes"
  THEN InvalidScalarValue(self, "a vector of bytes", DisplayOfRawValue, datatype)
  ELSE IF datatype = "Counter"
  THEN InvalidScalarValue(self, "an integer", DisplayOfRawValue, datatype)
  ELSE IF datatype = "Timestamp" /\ self.kind = "Int" THEN Ok(Timestamp(self.i))
  ELSE IF datatype = "Timestamp" /\ self.kind = "Uint" THEN Ok(Timestamp(U64AsI64(self.u)))
  ELSE IF datatype = "Timestamp"
  THEN InvalidScalarValue(self, "an integer", DisplayOfRawValue, datatype)
  ELSE IF datatype = "Cursor"
  THEN InvalidScalarValue(self, "a cursor", DisplayOfRawValue, datatype)
  ELSE IF datatype = "Int"
  THEN IF to_i64(self).some THEN Ok(Int64(to_i64(self).number))
       ELSE InvalidScalarValue(self, "an int", DisplayOfRawValue, datatype)
  ELSE IF datatype = "Uint"
  THEN IF to_u64(self).some THEN Ok(Uint(to_u64(self).number))
       ELSE InvalidScalarValue(self, "a uint", DisplayOfRawValue, datatype)
  ELSE IF datatype = "F64"
  THEN IF to_f64(self).some THEN Ok(F64(to_f64(self).number))
       ELSE InvalidScalarValue(self, "an f64", DisplayOfRawValue, datatype)
  ELSE Ok(self)

\* ScalarValue::as_datatype: the arms of `match (datatype, self)` in the
\* order of the source, the first that matches being taken.
as_datatype(self, datatype) ==
  IF datatype = "Counter" /\ self.kind = "Int" THEN Ok(Counter(self.i))
  ELSE IF datatype = "Counter" /\ self.kind = "Uint"
  THEN IF TryFromU64(self.u).ok THEN Ok(Counter(TryFromU64(self.u).i))
       ELSE InvalidScalarValue(self, "an integer", "an integer larger than i64::max_value", datatype)
  ELSE IF datatype = "Bytes" /\ self.kind = "Bytes" THEN Ok(Bytes(self.bytes))
  ELSE IF datatype = "Bytes"
  THEN InvalidScalarValue(self, "a vector of bytes", DisplayOfRawValue, datatype)
  ELSE IF datatype = "Counter"
  THEN InvalidScalarValue(self, "an integer", DisplayOfRawValue, datatype)
  ELSE IF datatype = "Timestamp" /\ self.kind = "Int" THEN Ok(Timestamp(self.i))
  ELSE IF datatype = "Timestamp" /\ self.kind = "Uint"
  THEN IF TryFromU64(self.u).ok THEN Ok(Timestamp(TryFromU64(self.u).i))
       ELSE InvalidScalarValue(self, "an integer", "an integer larger than i64::max_value", datatype)
  ELSE IF datatype = "Timestamp"
  THEN InvalidScalarValue(self, "an integer", DisplayOfRawValue, datatype)
  ELSE IF datatype = "Cursor"
  THEN InvalidScalarValue(self, "a cursor", DisplayOfRawValue, datatype)
  ELSE IF datatype = "Int"
  THEN IF to_i64(self).some THEN Ok(Int64(to_i64(self).number))
       ELSE InvalidScalarValue(self, "an int", DisplayOfRawValue, datatype)
  ELSE IF datatype = "Uint"
  THEN IF to_u64(self).some THEN Ok(Uint(to_u64(self).number))
       ELSE InvalidScalarValue(self, "a uint", DisplayOfRawValue, datatype)
  ELSE IF datatype = "F64"
  THEN IF to_f64(self).some THEN Ok(F64(to_f64(self).number))
       ELSE InvalidScalarValue(self, "an f64", DisplayOfRawValue, datatype)
  ELSE Ok(self)

\* pub struct ScalarValues { vec, kind }
ScalarValues(vec, kind) == [vec |-> vec, kind |-> kind]

\* ScalarValues::new
ScalarValues_new(kind) == ScalarValues(<<>>, kind)

\* Option<ScalarValueKind>
NoKind == [some |-> FALSE]
SomeKind(kind) == [some |-> TRUE, kind |-> kind]

\* append with a slip: the value is pushed whatever its kind.
append_PushesAnyKind(self, v) ==
  LET new_kind == KindFrom(v) IN
  IF self.kind = new_kind
  THEN [self |-> ScalarValues(Append(self.vec, v), self.kind), ret |-> NoKind]
  ELSE [self |-> ScalarValues(Append(self.vec, v), self.kind), ret |-> SomeKind(new_kind)]

\* ScalarValues::append: the ScalarValues after the call and what it returns.
append(self, v) ==
  LET new_kind == KindFrom(v) IN
  IF self.kind = new_kind
  THEN [self |-> ScalarValues(Append(self.vec, v), self.kind), ret |-> NoKind]
  ELSE [self |-> self, ret |-> SomeKind(new_kind)]

\* The values as_datatype is called on: every integer of the width in each
\* integer variant, floats inside and beyond both integer ranges, and two
\* values of each other variant.
ScalarValueSamples ==
  {Int64(i) : i \in I64Min..I64Max} \cup {Uint(u) : u \in 0..U64Max}
    \cup {Counter(i) : i \in I64Min..I64Max} \cup {Timestamp(i) : i \in I64Min..I64Max}
    \cup {F64(Float(n)) : n \in {I64Min - 1, -1, 0, 1, I64Max + 1, U64Max + 1}}
    \cup {F64(NaN)}
    \cup {Bytes(<<>>), Bytes(<<1>>), Str(""), Str("s")}
    \cup {Cursor(OpId(1, "A")), Cursor(OpId(2, "B"))}
    \cup {Boolean(FALSE), Boolean(TRUE), Null}

\* The values appended: one or two of every kind.
AppendSamples ==
  {Int64(0), Int64(I64Min), Uint(0), Uint(U64Max), Counter(0), Counter(1),
   Timestamp(0), Timestamp(1), F64(Float(0)), F64(NaN),
   Bytes(<<>>), Bytes(<<1>>), Str(""), Str("s"),
   Cursor(OpId(1, "A")), Cursor(OpId(2, "B")), Boolean(FALSE), Boolean(TRUE), Null}

\* The record of a call not made yet.
NotCalled == [called |-> FALSE]

----------------------------------------------------------------------------
\* The state after SequenceTree::new.
TreeInit ==
  /\ root_node = new
  /\ panicked = FALSE
  /\ prev = new
  /\ last = Call("new", 0, 0, "", NoneResult, FALSE)
  /\ reference = <<>>
  /\ nIns = 0
  /\ nRem = 0

\* No call of as_datatype is made.
DatatypeIdle ==
  /\ value = Null
  /\ result = NotCalled

\* No call of append is made.
ValuesIdle ==
  /\ values = ScalarValues_new("Null")
  /\ prevValues = ScalarValues_new("Null")
  /\ lastAppend = NotCalled

Init ==
  /\ TreeInit
  /\ DatatypeIdle
  /\ ValuesIdle

\* SequenceTree::insert
Insert(index, element) ==
  /\ ~panicked
  /\ nIns < MaxInserts
  /\ LET opid == nIns + 1 IN
     /\ root_node' = NodeInsert(root_node, index, opid, element)
     /\ last' = Call("insert", index, opid, element, NoneResult, FALSE)
     /\ reference' = ListInsert(reference, index, [opid |-> opid, elem |-> element])
  /\ prev' = root_node
  /\ nIns' = nIns + 1
  /\ UNCHANGED <<panicked, nRem, scalarVars>>

\* SequenceTree::push_back
PushBack(element) ==
  /\ ~panicked
  /\ nIns < MaxInserts
  /\ LET l == len
         opid == nIns + 1
     IN
     /\ root_node' = NodeInsert(root_node, l, opid, element)
     /\ last' = Call("push_back", l, opid, element, NoneResult, FALSE)
     /\ reference' = ListInsert(reference, l, [opid |-> opid, elem |-> element])
  /\ prev' = root_node
  /\ nIns' = nIns + 1
  /\ UNCHANGED <<panicked, nRem, scalarVars>>

\* SequenceTree::remove.  debug_assertions is the build profile: it decides
\* only how `*len -= 1` treats a len of 0, and every call that meets one
\* panics, so the profile is drawn at the call.
Remove(index) ==
  /\ ~panicked
  /\ \E r \in {NodeRemove(root_node, index, debug_assertions) : debug_assertions \in BOOLEAN} :
     /\ root_node' = r.node
     /\ panicked' = r.panic
     /\ last' = Call("remove", index, 0, "", r.ret, r.panic)
  /\ reference' = IF index < Len(reference) THEN ListRemove(reference, index) ELSE reference
  /\ prev' = root_node
  /\ nRem' = nRem + 1
  /\ UNCHANGED <<nIns, scalarVars>>

\* SequenceTree::set
Set(index, element) ==
  /\ ~panicked
  /\ LET r == NodeSet(root_node, index, element) IN
     /\ root_node' = r.node
     /\ panicked' = r.panic
     /\ last' = Call("set", index, 0, element, r.ret, r.panic)
  /\ reference' = IF index < Len(reference) THEN ListSet(reference, index, element) ELSE reference
  /\ prev' = root_node
  /\ UNCHANGED <<nIns, nRem, scalarVars>>

\* Get with a slip: the read takes `*len -= 1` along from remove.
Get_DecrementsLen(index) ==
  /\ ~panicked
  /\ last' = Call("get", index, 0, "", NodeGet(root_node, index), FALSE)
  /\ prev' = root_node
  /\ root_node' = Node(root_node.left, root_node.right, WrappingDec(root_node.len))
  /\ UNCHANGED <<panicked, reference, nIns, nRem, scalarVars>>

\* SequenceTree::get
Get(index) ==
  /\ ~panicked
  /\ last' = Call("get", index, 0, "", NodeGet(root_node, index), FALSE)
  /\ prev' = root_node
  /\ UNCHANGED <<root_node, panicked, reference, nIns, nRem, scalarVars>>

\* SequenceTree::get_mut (the caller leaves the value as it is)
GetMut(index) ==
  /\ ~panicked
  /\ last' = Call("get_mut", index, 0, "", NodeGetMut(root_node, index), FALSE)
  /\ prev' = root_node
  /\ UNCHANGED <<root_node, panicked, reference, nIns, nRem, scalarVars>>

\* The calls of a caller that keeps the preconditions of section 4.1:
\* insert at 0 <= index <= len(), remove and set at index < len(); reads
\* have no precondition and probe up to one past len().
Next ==
  \/ \E index \in 0..len, element \in Elements : Insert(index, element)
  \/ \E element \in Elements : PushBack(element)
  \/ \E index \in 0..(len - 1) : Remove(index)
  \/ \E index \in 0..(len - 1), element \in Elements : Set(index, element)
  \/ \E index \in 0..(len + 1) : Get(index)
  \/ \E index \in 0..(len + 1) : GetMut(index)

Spec == Init /\ [][Next]_vars

\* The mutating calls of a caller that keeps the precondition of insert only:
\* remove and set are made at any position, in or out of bounds.
NextAny ==
  \/ \E index \in 0..len, element \in Elements : Insert(index, element)
  \/ \E element \in Elements : PushBack(element)
  \/ \E index \in Positions : Remove(index)
  \/ \E index \in Positions, element \in Elements : Set(index, element)

SpecAny == Init /\ [][NextAny]_vars

\* Front insertion from empty: every insert is made at position 0.
NextFront ==
  \/ \E element \in Elements : Insert(0, element)
  \/ \E index \in 0..(len + 1) : Get(index)
  \/ \E index \in 0..(len + 1) : GetMut(index)

SpecFront == Init /\ [][NextFront]_vars

\* Appending from empty: every insert is a push_back.
NextAppend ==
  \/ \E element \in Elements : PushBack(element)
  \/ \E index \in 0..(len + 1) : Get(index)
  \/ \E index \in 0..(len + 1) : GetMut(index)

SpecAppend == Init /\ [][NextAppend]_vars

\* The end-to-end scenario of section 8, with any values: two push_back
\* calls, an insert at position 1, a remove at position 0, and reads at
\* positions 0..5 in between.
ScenarioElements == {"a", "b", "x"}

NextScenario ==
  \/ nIns < 2 /\ \E element \in ScenarioElements : PushBack(element)
  \/ nIns = 2 /\ \E element \in ScenarioElements : Insert(1, element)
  \/ nIns = 3 /\ nRem = 0 /\ Remove(0)
  \/ \E index \in 0..5 : Get(index)

SpecScenario == Init /\ [][NextScenario]_vars

----------------------------------------------------------------------------
\* A call of ScalarValue::as_datatype on the value.
AsDatatype(datatype) ==
  /\ result' = [called |-> TRUE, datatype |-> datatype, ret |-> as_datatype(value, datatype)]
  /\ UNCHANGED <<treeVars, value, values, prevValues, lastAppend>>

\* as_datatype of every sampled value with every datatype.
InitDatatype ==
  /\ TreeInit
  /\ value \in ScalarValueSamples
  /\ result = NotCalled
  /\ ValuesIdle

NextDatatype == \E datatype \in DataType : AsDatatype(datatype)

SpecDatatype == InitDatatype /\ [][NextDatatype]_vars

\* A call of ScalarValues::append.
AppendValue(v) ==
  /\ Len(values.vec) < MaxAppends
  /\ LET r == append(values, v) IN
     /\ values' = r.self
     /\ lastAppend' = [called |-> TRUE, v |-> v, ret |-> r.ret]
  /\ prevValues' = values
  /\ UNCHANGED <<treeVars, value, result>>

\* Appends of any sampled value to a ScalarValues created with any kind.
InitValues ==
  /\ TreeInit
  /\ DatatypeIdle
  /\ \E kind \in ScalarValueKind :
       /\ values = ScalarValues_new(kind)
       /\ prevValues = ScalarValues_new(kind)
  /\ lastAppend = NotCalled

NextValues == \E v \in AppendSamples : AppendValue(v)

SpecValues == InitValues /\ [][NextValues]_vars

----------------------------------------------------------------------------
\* What the claims speak of.

\* The call made last was an insert (insert or push_back), a read.
Inserted == last.op \in {"insert", "push_back"}
Read == last.op \in {"get", "get_mut"}

\* The values of a list of (opid, elem) records.
Values(s) == [k \in 1..Len(s) |-> s[k].elem]

\* I1 on a subtree: every Internal node caches the sum of its children's
\* lengths, 0 for an absent child and 1 for a Leaf.
RECURSIVE CachedLenOK(_)
CachedLenOK(n) ==
  IF n.kind = "Node"
  THEN /\ n.len = MapOrLen(n.left) + MapOrLen(n.right)
       /\ CachedLenOK(n.left)
       /\ CachedLenOK(n.right)
  ELSE TRUE

\* A subtree with every value blanked: its shape, cached lens and OpIds.
RECURSIVE Blank(_)
Blank(n) ==
  IF n.kind = "Node" THEN Node(Blank(n.left), Blank(n.right), n.len)
  ELSE IF n.kind = "Leaf" THEN Leaf(n.opid, "")
  ELSE n

\* C1: get(i), 0 <= i < len(), returns the pair held by the i-th leaf of the
\* in-order traversal.
C1_GetReturnsInOrderLeaf ==
  (last.op = "get" /\ last.index < NodeLen(prev)) =>
    /\ last.index < Len(InOrder(prev))
    /\ last.ret = Some(InOrder(prev)[last.index + 1].opid, InOrder(prev)[last.index + 1].elem)

\* C2: after insert(p, opId, value), get(p) returns (opId, value), what was at
\* a position j >= p is at j + 1 and what was at a position j < p is still at j.
C2_InsertPlacesAndShifts ==
  Inserted =>
    /\ NodeGet(root_node, last.index) = Some(last.opid, last.elem)
    /\ \A j \in 0..(NodeLen(prev) - 1) :
         IF j >= last.index
         THEN NodeGet(root_node, j + 1) = NodeGet(prev, j)
         ELSE NodeGet(root_node, j) = NodeGet(prev, j)

\* C3: after remove(i), i < len(), the length is one less, what was at a
\* position j > i is at j - 1 and what was at a position j < i is still at j.
C3_RemoveShrinksAndShifts ==
  (last.op = "remove") =>
    /\ ~last.panic
    /\ len = NodeLen(prev) - 1
    /\ \A j \in 0..(NodeLen(prev) - 1) :
         /\ j > last.index => NodeGet(root_node, j - 1) = NodeGet(prev, j)
         /\ j < last.index => NodeGet(root_node, j) = NodeGet(prev, j)

\* C4: after every step of insert, remove and set calls the in-order
\* traversal of the tree's values equals the reference list.
C4_TraversalEqualsReference ==
  ~panicked => Values(InOrder(root_node)) = Values(reference)

\* C5: len() after each call is the number of inserts minus the number of
\* removes made so far.
C5_LenIsInsertsMinusRemoves == len = nIns - nRem

C5_Witness ==
  /\ last.op = "remove"
  /\ ~panicked
  /\ nIns >= 2
  /\ len >= 1

\* C6 (I1): after completed calls every Internal node's cached len is the
\* length of its left child plus the length of its right child.
C6_CachedLenIsSumOfChildren == ~panicked => CachedLenOK(root_node)

C6_Witness ==
  /\ last.op = "remove"
  /\ ~panicked
  /\ root_node.left.kind = "Node"
  /\ root_node.left.left.kind = "None"
  /\ root_node.left.right.kind = "Node"
  /\ root_node.left.len = 2

\* C7: get(p) and get_mut(p) return None for every p >= len().
C7_ReadPastEndIsNone ==
  (Read /\ last.index >= NodeLen(prev)) => last.ret = NoneResult

\* C8: remove(i), i < len(), returns the value get(i) returned just before.
C8_RemoveReturnsWhatGetReturned ==
  (last.op = "remove") =>
    /\ ~last.panic
    /\ NodeGet(prev, last.index).some
    /\ last.ret = NodeGet(prev, last.index).elem

\* C9: set(i, v), i < len(), then get(i) returns v with the OpId get(i)
\* returned before the set.
C9_SetThenGet ==
  (last.op = "set") =>
    /\ ~last.panic
    /\ NodeGet(prev, last.index).some
    /\ NodeGet(root_node, last.index) = Some(NodeGet(prev, last.index).opid, last.elem)

\* C10: set(i, v), i < len(), returns the value stored at i before and
\* changes nothing else: shape, cached lens, OpIds and the value at every
\* other position stay as they were.
C10_SetFrame ==
  (last.op = "set") =>
    /\ ~last.panic
    /\ NodeGet(prev, last.index).some
    /\ last.ret = NodeGet(prev, last.index).elem
    /\ len = NodeLen(prev)
    /\ Blank(root_node) = Blank(prev)
    /\ \A j \in 0..(NodeLen(prev) - 1) :
         j # last.index => NodeGet(root_node, j) = NodeGet(prev, j)

\* C11: after N inserts at position 0 carrying OpIds 1..N in that order,
\* get(i), i < N, returns OpId N - i (reverse insertion order).
C11_FrontInsertionReverses ==
  (last.op = "get" /\ last.index < NodeLen(prev)) =>
    /\ last.ret.some
    /\ last.ret.opid = nIns - last.index

\* C12: after N push_back calls carrying OpIds 1..N in that order, get(i),
\* i < N, returns OpId i + 1 (insertion order).
C12_AppendKeepsOrder ==
  (last.op = "get" /\ last.index < NodeLen(prev)) =>
    /\ last.ret.some
    /\ last.ret.opid = last.index + 1

\* C13: a second element inserted into a single-element container gives
\* length 2 with the new element first when inserted at 0 and second when
\* inserted at 1.
C13_LeafSplitOrder ==
  (Inserted /\ nIns = 2 /\ nRem = 0) =>
    LET old == NodeGet(prev, 0)
        new_ == Some(last.opid, last.elem)
    IN
    /\ len = 2
    /\ last.index = 0 => (NodeGet(root_node, 0) = new_ /\ NodeGet(root_node, 1) = old)
    /\ last.index = 1 => (NodeGet(root_node, 0) = old /\ NodeGet(root_node, 1) = new_)

\* What get reads at the positions 0..k-1 of a tree.
Reads(n, k) ==
  [i \in 1..k |-> IF NodeGet(n, i - 1).some THEN NodeGet(n, i - 1).elem ELSE "absent"]

\* C14: push_back(1@A, "a"); push_back(2@A, "b"); insert(1, 3@A, "x") leaves
\* positions 0, 1, 2 reading "a", "x", "b"; remove(0) then leaves length 2
\* with positions 0, 1 reading "x", "b"; and get(5) then returns absent.
C14_Scenario ==
  /\ (nIns = 3 /\ nRem = 0 /\ Values(reference) = <<"a", "x", "b">>) =>
        Reads(root_node, 3) = <<"a", "x", "b">>
  /\ (nRem = 1 /\ Values(reference) = <<"x", "b">>) =>
        /\ ~panicked
        /\ len = 2
        /\ Reads(root_node, 2) = <<"x", "b">>
  /\ (nRem = 1 /\ last.op = "get" /\ last.index = 5) => last.ret = NoneResult

\* C15 (I3, root): the root node is an Internal node in every state, also
\* with 0 or 1 elements.
C15_RootIsInternal == root_node.kind = "Node"

C15_Witness ==
  /\ last.op = "remove"
  /\ ~panicked
  /\ nIns >= 1
  /\ len = 0
  /\ NodeLen(prev) = 1

\* The OpIds held by the leaves of a subtree.
LeafOpIds(n) == {InOrder(n)[k].opid : k \in 1..Len(InOrder(n))}

\* C16 (I3, leaf count): after completed calls the number of leaves is len()
\* and the leaves hold the inserted OpIds, each once, less one per remove:
\* an insert adds its OpId, a remove takes one away, a set leaves them.
C16_LeavesAreLenAndOpIds ==
  ~panicked =>
    /\ Len(InOrder(root_node)) = len
    /\ Cardinality(LeafOpIds(root_node)) = Len(InOrder(root_node))
    /\ LeafOpIds(root_node) \subseteq 1..nIns
    /\ Cardinality(LeafOpIds(root_node)) = nIns - nRem
    /\ Inserted => /\ last.opid \notin LeafOpIds(prev)
                   /\ LeafOpIds(root_node) = LeafOpIds(prev) \cup {last.opid}
    /\ last.op = "remove" =>
         \E o \in LeafOpIds(prev) : LeafOpIds(root_node) = LeafOpIds(prev) \ {o}
    /\ last.op = "set" => LeafOpIds(root_node) = LeafOpIds(prev)

C16_Witness ==
  /\ last.op = "remove"
  /\ ~panicked
  /\ nIns = 3
  /\ Len(InOrder(root_node)) = 2
  /\ LeafOpIds(root_node) = {1, 3}

\* C17: on a non-empty tree set(p, v) and remove(p) with p >= len() abort:
\* they return no value and modify or remove no stored element.
C17_OutOfBoundsAborts ==
  (last.op \in {"set", "remove"} /\ NodeLen(prev) >= 1 /\ last.index >= NodeLen(prev)) =>
    /\ last.panic
    /\ InOrder(root_node) = InOrder(prev)

\* C18: remove(p) on an empty tree aborts for every position p.
C18_RemoveOnEmptyAborts ==
  (last.op = "remove" /\ NodeLen(prev) = 0) => last.panic

C18_Witness ==
  /\ last.op = "remove"
  /\ last.panic
  /\ NodeLen(prev) = 0
  /\ prev.left.kind = "Node"
  /\ last.index > 0

\* C19: get(p) is read-only for every p: shape, cached lens and stored
\* pairs are as before the call.
C19_GetIsReadOnly == (last.op = "get") => root_node = prev

C19_Witness ==
  /\ last.op = "get"
  /\ last.index > NodeLen(prev)
  /\ last.ret = NoneResult
  /\ nRem >= 1
  /\ NodeLen(prev) >= 1

\* C20: set(p, v) and remove(p) with p < len() complete and return a value,
\* reaching no fatal path.
C20_InBoundsCallsComplete ==
  (last.op \in {"set", "remove"}) => ~last.panic

\* The number of Internal nodes of a subtree.
RECURSIVE InternalCount(_)
InternalCount(n) ==
  IF n.kind = "Node" THEN 1 + InternalCount(n.left) + InternalCount(n.right) ELSE 0

\* new is old after one insert of leaf below it: a Leaf has become an
\* Internal node of len 2 over itself and leaf; an Internal node has its len
\* incremented and exactly one child slot changed, from absent to leaf or
\* by an insert below it, the other slot and all below it being as before.
RECURSIVE InsertedBelow(_, _, _)
InsertedBelow(old, new_, leaf) ==
  IF old.kind = "Leaf"
  THEN /\ new_.kind = "Node"
       /\ new_.len = 2
       /\ {new_.left, new_.right} = {old, leaf}
  ELSE /\ new_.kind = "Node"
       /\ new_.len = old.len + 1
       /\ \/ /\ new_.right = old.right
             /\ IF old.left.kind = "None" THEN new_.left = leaf
                ELSE InsertedBelow(old.left, new_.left, leaf)
          \/ /\ new_.left = old.left
             /\ IF old.right.kind = "None" THEN new_.right = leaf
                ELSE InsertedBelow(old.right, new_.right, leaf)

\* C21: insert(p, ...), 0 <= p <= len(), completes, increments by 1 the
\* cached len of each Internal node on the path from the root to the
\* insertion point, leaves every other node as it was, and turns at most
\* one Leaf into an Internal node, of len 2.
C21_InsertFrame ==
  Inserted =>
    /\ ~last.panic
    /\ ~panicked
    /\ InsertedBelow(prev, root_node, Leaf(last.opid, last.elem))
    /\ InternalCount(root_node) - InternalCount(prev) \in {0, 1}

C21_Witness ==
  /\ Inserted
  /\ nRem >= 1
  /\ InternalCount(prev) >= 2
  /\ InternalCount(root_node) = InternalCount(prev) + 1

\* new is old after one completed remove below it: every Internal node on
\* the path has its len decremented and is still there, exactly one Leaf
\* child slot has become absent, everything else is as before.
RECURSIVE RemovedBelow(_, _)
RemovedBelow(old, new_) ==
  /\ old.kind = "Node"
  /\ new_.kind = "Node"
  /\ new_.len = old.len - 1
  /\ \/ /\ new_.right = old.right
        /\ IF old.left.kind = "Leaf" THEN new_.left = None
           ELSE old.left.kind = "Node" /\ RemovedBelow(old.left, new_.left)
     \/ /\ new_.left = old.left
        /\ IF old.right.kind = "Leaf" THEN new_.right = None
           ELSE old.right.kind = "Node" /\ RemovedBelow(old.right, new_.right)

\* C22: a completed remove detaches exactly one Leaf, whose slot becomes
\* absent, and removes, merges or converts no Internal node, also one left
\* with one child or none.
C22_RemoveDetachesOneLeaf ==
  (last.op = "remove" /\ ~last.panic) =>
    /\ RemovedBelow(prev, root_node)
    /\ InternalCount(root_node) = InternalCount(prev)
    /\ Len(InOrder(root_node)) = Len(InOrder(prev)) - 1

C22_Witness ==
  /\ last.op = "remove"
  /\ ~last.panic
  /\ root_node.left.kind = "Node"
  /\ root_node.left.left.kind = "Node"
  /\ root_node.left.left.left.kind = "None"
  /\ root_node.left.left.right.kind = "None"

----------------------------------------------------------------------------
\* The as_datatype call made last and what it returned.
Coerced == result.called
Ret == result.ret

\* C23: as_datatype with target Bytes or Cursor succeeds exactly when the
\* value is of that same variant, returning an equal value, and fails with
\* InvalidScalarValue for every other variant.
C23_BytesCursorExactMatch ==
  (Coerced /\ result.datatype \in {"Bytes", "Cursor"}) =>
    IF value.kind = result.datatype
    THEN Ret.ok /\ Ret.value = value
    ELSE ~Ret.ok /\ Ret.error = "InvalidScalarValue"

\* The integer variants of ScalarValue and the integer datatypes, which
\* carry the same names.
IntegerKinds == {"Int", "Uint", "Counter", "Timestamp"}

\* The integer a value of an integer variant holds, and the value of an
\* integer variant that holds an integer.
Payload(v) == IF v.kind = "Uint" THEN v.u ELSE v.i
Variant(kind, n) ==
  IF kind = "Uint" THEN Uint(n)
  ELSE IF kind = "Int" THEN Int64(n)
  ELSE IF kind = "Counter" THEN Counter(n)
  ELSE Timestamp(n)

\* The integer n reinterpreted in the variant, modulo 2^width.
Reinterpreted(kind, n) ==
  IF kind = "Uint" THEN Variant(kind, n % 2^Bits)
  ELSE Variant(kind, ((n - I64Min) % 2^Bits) + I64Min)

\* C24, as stated: as_datatype from any of Int, Uint, Counter, Timestamp to
\* any of the datatypes Int, Uint, Counter, Timestamp succeeds and returns
\* the target variant holding the value reinterpreted modulo 2^width.
C24_IntegerCoercionsAlwaysWrap ==
  (Coerced /\ value.kind \in IntegerKinds /\ result.datatype \in IntegerKinds) =>
    /\ Ret.ok
    /\ Ret.value = Reinterpreted(result.datatype, Payload(value))

\* C24, amended: to Int and Uint every integer variant is reinterpreted
\* modulo 2^width; to Counter and Timestamp an Int is taken as it is, a
\* Uint is taken as it is when it is at most i64::MAX and refused with
\* InvalidScalarValue when it is larger, and a Counter or a Timestamp is
\* refused with InvalidScalarValue.
C24_IntegerCoercions ==
  (Coerced /\ value.kind \in IntegerKinds /\ result.datatype \in IntegerKinds) =>
    IF result.datatype \in {"Int", "Uint"}
    THEN Ret.ok /\ Ret.value = Reinterpreted(result.datatype, Payload(value))
    ELSE IF value.kind = "Int" \/ (value.kind = "Uint" /\ value.u <= I64Max)
    THEN Ret.ok /\ Ret.value = Variant(result.datatype, Payload(value))
    ELSE ~Ret.ok /\ Ret.error = "InvalidScalarValue"

C24_Witness ==
  /\ Coerced
  /\ value = Uint(U64Max)
  /\ result.datatype = "Counter"
  /\ ~Ret.ok
  /\ Ret.unexpected = "an integer larger than i64::max_value"

\* C25: every value stored in a ScalarValues has the kind it was created
\* with; an append of a value of another kind returns that kind and leaves
\* the vector as it was; an append of a value of the kind returns None and
\* puts the value at the end of the vector, which grows by one.
C25_AppendKeepsOneKind ==
  /\ \A i \in 1..Len(values.vec) : KindFrom(values.vec[i]) = values.kind
  /\ lastAppend.called =>
       /\ values.kind = prevValues.kind
       /\ IF KindFrom(lastAppend.v) # prevValues.kind
          THEN /\ lastAppend.ret = SomeKind(KindFrom(lastAppend.v))
               /\ values.vec = prevValues.vec
          ELSE /\ lastAppend.ret = NoKind
               /\ Len(values.vec) = Len(prevValues.vec) + 1
               /\ SubSeq(values.vec, 1, Len(prevValues.vec)) = prevValues.vec
               /\ values.vec[Len(values.vec)] = lastAppend.v

C25_Witness ==
  /\ lastAppend.called
  /\ KindFrom(lastAppend.v) # values.kind
  /\ lastAppend.ret.some
  /\ Len(values.vec) >= 2
  /\ values.vec = prevValues.vec

====
